---- MODULE Spec2Model ----
(***************************************************************************)
(* A model of LabelAirwayParticlesByGeneration (the command line tool and  *)
(* its three parameter-file loaders) and of the airway particle            *)
(* connectedness test of cipAirwayParticleConnectedComponentFilter.        *)
(*                                                                         *)
(* Arithmetic.  The program computes in IEEE doubles; the model computes   *)
(* exactly, in integers and in fractions of integers.  A quotient is a     *)
(* record that is finite, +inf, -inf or NaN, and every comparison with a   *)
(* NaN is false, as in the program.  A vector magnitude is carried as its  *)
(* square and an angle as the square of its cosine, so that the            *)
(* comparisons of the program are decided without roots.                   *)
(***************************************************************************)
EXTENDS Integers, Sequences, FiniteSets, TLC

\* Bounds of the model.
MaxCoord == 1
MaxScale == 2

\* Data rows of a statistics file, and the variants of the numbers of a row.
MaxRows == 4
MaxSeed == 1
\* The length of the line buffer wholeLine, which is 100000 characters in the
\* program, counted in tokens of the model (see the tokens below).
BufLen == 24
\* The calls of the filter that are recorded; more are made only by a loop
\* that never ends.
MaxTrace == 150
\* Atlas file names on the command line.
MaxAtlases == 2
\* Nodes of a graph.
NumNodes == 4
\* Particles of a report.
MaxParticles == 2

\* The default of main's particleDistanceThreshold.
DefaultParticleDistanceThreshold == 2
\* The chest type code of generation 0 (the loaders' "+ 38"), the last
\* generation of the transition grid, and the undefined type.
AIRWAYGENERATION0 == 38
LastGeneration == 10
UNDEFINEDTYPE == 0
\* A row of transition statistics counts when it has more samples than this.
MinSamples == 10
\* Rows, and columns, of the confusion matrix.
MatrixSize == 10

VARIABLES
    particles,                  \* InternalInputPolyData: index -> scale, point, hevec2
    ScaleRatioThreshold,        \* a fraction [num, den]
    ParticleDistanceThreshold,  \* a whole number of units
    ParticleAngleThreshold,     \* degrees, one of AngleThresholds
    lastEval                    \* the last call of EvaluateParticleConnectedness
                                \* made under the thresholds in force

VARIABLES
    args,                       \* main's parsed command line
    disk,                       \* file name -> the file's content
    numberOfEnumeratedChestRegions, \* ChestConventions' count of regions
    pc,                         \* where main (or the loader it called) stands
    stream,                     \* the std::ifstream of the running loader
    wholeLine,                  \* the loader's line buffer
    keepChecking,               \* the emission loader's loop flag
    rowIndex,                   \* the transition loader's i
    atlasIndex,                 \* main's i over the atlas file names
    trace                       \* the calls made so far, in order

VARIABLES
    edges,                      \* the graph: the pairs of connected particles
    unexamined,                 \* the edges the spanning step has not examined
    component,                  \* node -> the representative of its component
    spanningEdges,              \* the edges kept by the spanning step
    forestArcs,                 \* the oriented forest: <<parent, child>>
    reached,                    \* the nodes the traversal has reached
    roots,                      \* the nodes chosen as roots
    queue,                      \* the traversal's queue
    forestPc                    \* where the derivation stands

VARIABLES
    labels,                     \* per particle: ChestType read, ChestType given
    printDiceScores,            \* main's flag
    confusionMatrix,            \* row -> column -> count
    intersectionCounter,        \* type -> particles read and given that type
    inTypeCounter,              \* type -> particles read with that type
    outTypeCounter,             \* type -> particles given that type
    particleI,                  \* the i of the loop over the particles
    lastCell,                   \* the last confusionMatrix[..][..] reached for
    diceOut,                    \* the Dice lines printed
    matrixOut,                  \* the matrix rows printed
    dicePc                      \* where the report stands

VARIABLE
    passes                      \* the passes of the running loader's do-while
                                \* loop, modulo 2

connVars == <<particles, ScaleRatioThreshold, ParticleDistanceThreshold,
              ParticleAngleThreshold, lastEval>>

mainVars == <<args, disk, numberOfEnumeratedChestRegions, pc, stream, wholeLine,
              keepChecking, rowIndex, atlasIndex, trace>>

forestVars == <<edges, unexamined, component, spanningEdges, forestArcs,
                reached, roots, queue, forestPc>>

diceVars == <<labels, printDiceScores, confusionMatrix, intersectionCounter,
              inTypeCounter, outTypeCounter, particleI, lastCell, diceOut,
              matrixOut, dicePc>>

vars == <<connVars, mainVars, forestVars, diceVars, passes>>

----------------------------------------------------------------------------
\* Exact arithmetic with the IEEE special values.

Abs(x) == IF x < 0 THEN -x ELSE x

Frac(n, d) == [num |-> n, den |-> d]

\* n / d in doubles: 0/0 is NaN, x/0 is an infinity.
Div(n, d) ==
    IF d = 0
    THEN IF n = 0 THEN [kind |-> "nan", num |-> 0, den |-> 1]
         ELSE IF n > 0 THEN [kind |-> "inf", num |-> 1, den |-> 1]
         ELSE [kind |-> "neginf", num |-> -1, den |-> 1]
    ELSE IF d > 0 THEN [kind |-> "fin", num |-> n, den |-> d]
    ELSE [kind |-> "fin", num |-> -n, den |-> -d]

\* q > t for a quotient q and a finite fraction t with t.den > 0.
Greater(q, t) ==
    CASE q.kind = "nan"    -> FALSE
      [] q.kind = "inf"    -> TRUE
      [] q.kind = "neginf" -> FALSE
      [] OTHER             -> q.num * t.den > t.num * q.den

Dot(a, b) == a[1] * b[1] + a[2] * b[2] + a[3] * b[3]

Minus(a, b) == <<a[1] - b[1], a[2] - b[2], a[3] - b[3]>>

----------------------------------------------------------------------------
\* The particle data and the thresholds.

ParticleIndices == {0, 1}

Coords == 0 .. MaxCoord

\* Positions in the plane z = 0, on the two rows y = 0 and y = 1.
Points == {<<x, y, 0>> : x \in Coords, y \in {0, 1}}

\* Minor eigenvectors: an axis, a diagonal and the degenerate zero vector.
Hevecs == {<<1, 0, 0>>, <<1, 1, 0>>, <<0, 0, 0>>}

Scales == 0 .. MaxScale

Particle == [scale : Scales, point : Points, hevec2 : Hevecs]

ScaleRatioThresholds == {Frac(0, 1), Frac(1, 2), Frac(1, 1)}

\* A slip: the constructor leaves the threshold at 0.
ZeroScaleRatioThreshold == Frac(0, 1)

\* this->ScaleRatioThreshold = 1.0 in the constructor.
DefaultScaleRatioThreshold == Frac(1, 1)

DistanceThresholds == {1, DefaultParticleDistanceThreshold}

AngleThresholds == {0, 45, 90}

\* The square of the cosine of a threshold angle, as a fraction.
CosSq(deg) ==
    CASE deg = 0  -> Frac(1, 1)
      [] deg = 45 -> Frac(1, 2)
      [] deg = 90 -> Frac(0, 1)

\* The magnitude of vec, carried as its square.
GetVectorMagnitude(vec) == [sq |-> Dot(vec, vec)]

\* magnitude > d
MagnitudeGreater(m, d) == d < 0 \/ m.sq > d * d

\* The angle between vec1 and vec2 in degrees, folded into [0, 90]: an angle
\* above 90 is replaced by 180 minus it.  It is carried as the square of
\* its cosine, (vec1.vec2)^2 / (|vec1|^2 |vec2|^2); with a zero vector the
\* cosine is 0/0 and the angle is NaN.
GetAngleBetweenVectors(vec1, vec2, returnDegrees) ==
    LET d == Dot(vec1, vec2)
        m == Dot(vec1, vec1) * Dot(vec2, vec2)
    IN  [nan |-> (m = 0), num |-> d * d, den |-> m]

\* theta > deg for a folded angle theta and a threshold in [0, 90]: the
\* greater angle has the smaller cosine.
AngleGreater(theta, deg) ==
    /\ ~theta.nan
    /\ theta.num * CosSq(deg).den < CosSq(deg).num * theta.den

----------------------------------------------------------------------------
\* cipAirwayParticleConnectedComponentFilter

\* The variants of the connectedness test a slip in its code would give:
\* the first scale in place of the larger one as the denominator, the
\* distance test left out, the second particle's angle test left out.
EvaluateVariant(i1, i2, denomIsMax, distanceTest, theta2Test) ==
    LET scale1 == particles[i1].scale
        scale2 == particles[i2].scale
        maxScale == IF denomIsMax /\ ~(scale1 > scale2) THEN scale2 ELSE scale1
        connectingVec == Minus(particles[i1].point, particles[i2].point)
        theta1 == GetAngleBetweenVectors(particles[i1].hevec2, connectingVec, TRUE)
        theta2 == GetAngleBetweenVectors(particles[i2].hevec2, connectingVec, TRUE)
    IN  IF Greater(Div(Abs(scale1 - scale2), maxScale), ScaleRatioThreshold)
        THEN FALSE
        ELSE IF distanceTest
                /\ MagnitudeGreater(GetVectorMagnitude(connectingVec),
                                    ParticleDistanceThreshold)
        THEN FALSE
        ELSE IF \/ AngleGreater(theta1, ParticleAngleThreshold)
                \/ theta2Test /\ AngleGreater(theta2, ParticleAngleThreshold)
        THEN FALSE
        ELSE TRUE

EvaluateScale1Denominator(particleIndex1, particleIndex2) ==
    EvaluateVariant(particleIndex1, particleIndex2, FALSE, TRUE, TRUE)

EvaluateNoDistanceTest(particleIndex1, particleIndex2) ==
    EvaluateVariant(particleIndex1, particleIndex2, TRUE, FALSE, TRUE)

EvaluateNoTheta2Test(particleIndex1, particleIndex2) ==
    EvaluateVariant(particleIndex1, particleIndex2, TRUE, TRUE, FALSE)

EvaluateParticleConnectedness(particleIndex1, particleIndex2) ==
    LET scale1 == particles[particleIndex1].scale
        scale2 == particles[particleIndex2].scale
        maxScale == IF scale1 > scale2 THEN scale1 ELSE scale2
        point1 == particles[particleIndex1].point
        point2 == particles[particleIndex2].point
        connectingVec == Minus(point1, point2)
        particle1Hevec2 == particles[particleIndex1].hevec2
        particle2Hevec2 == particles[particleIndex2].hevec2
        theta1 == GetAngleBetweenVectors(particle1Hevec2, connectingVec, TRUE)
        theta2 == GetAngleBetweenVectors(particle2Hevec2, connectingVec, TRUE)
    IN  IF Greater(Div(Abs(scale1 - scale2), maxScale), ScaleRatioThreshold)
        THEN FALSE
        ELSE IF MagnitudeGreater(GetVectorMagnitude(connectingVec),
                                 ParticleDistanceThreshold)
        THEN FALSE
        ELSE IF \/ AngleGreater(theta1, ParticleAngleThreshold)
                \/ AngleGreater(theta2, ParticleAngleThreshold)
        THEN FALSE
        ELSE TRUE

----------------------------------------------------------------------------
\* Text.  A line of a parameter file is a sequence of tokens, each standing
\* for a run of characters the parsers never split: a comma, a number, a
\* name.  Name(g) for g in 0 .. LastGeneration is the chest type name of
\* airway generation g; any other name is one ChestConventions does not
\* know.  Positions in a string count tokens, from 0 as in the program.

Comma == [k |-> "comma", v |-> 0]
Nul == [k |-> "nul", v |-> 0]
Junk == [k |-> "junk", v |-> 0]
Num(n) == [k |-> "num", v |-> n]
Name(g) == [k |-> "name", v |-> g]

UnknownName == Name(-1)
ColumnTitle == Name(-2)

Min(S) == CHOOSE x \in S : \A y \in S : x <= y

\* unsigned int arithmetic, modulo 2^32.  An unsigned int is held as the
\* integer of least magnitude that is congruent to it: a value from 2^31 on
\* is held as a negative number (2^32 - 1 as -1), and sums and differences
\* of the small numbers of the model need no further reduction.
Add32(a, b) == a + b
Sub32(a, b) == a - b

\* Whether the unsigned int is 2^31 or more, beyond any string of the model.
Huge(u) == u < 0

\* std::string::npos stored in an unsigned int: 2^32 - 1.
NPos == -1

\* str.find( ',', pos ), stored in an unsigned int.
Find(str, pos) ==
    LET hits == {k \in 0 .. Len(str) - 1 : k >= pos /\ str[k + 1] = Comma}
    IN  IF Huge(pos) \/ hits = {} THEN NPos ELSE Min(hits)

\* str.substr( pos, n ); every call of the loaders has pos <= Len(str).
Substr(str, pos, n) ==
    LET rest == Len(str) - pos
    IN  SubSeq(str, pos + 1, pos + (IF ~Huge(n) /\ n < rest THEN n ELSE rest))

\* The C string of str: what precedes its first null character.
CStr(str) ==
    LET nuls == {k \in 1 .. Len(str) : str[k] = Nul}
    IN  IF nuls = {} THEN str ELSE SubSeq(str, 1, Min(nuls) - 1)

\* atof: the number the text starts with, 0.0 when it starts with none.
Atof(text) ==
    LET c == CStr(text)
    IN  IF c # <<>> /\ c[1].k = "num" THEN c[1].v ELSE 0

\* F applied to the value of e, which is computed once.
Bind(e, F(_)) == CHOOSE r \in {F(x) : x \in {e}} : TRUE

\* The text str.substr( commaLocOld+1, commaLocNew-commaLocOld-1 ).c_str().
Field(str, commaLocOld, commaLocNew) ==
    CStr(Substr(str, Add32(commaLocOld, 1),
                Sub32(Sub32(commaLocNew, commaLocOld), 1)))

\* The next n values of commaLocNew = str.find( ',', commaLocOld+1 ), each
\* search starting after the comma found before it.
RECURSIVE LocsAfter(_, _, _)
LocsAfter(str, commaLocOld, n) ==
    IF n = 0
    THEN <<>>
    ELSE Bind(Find(str, Add32(commaLocOld, 1)),
              LAMBDA commaLocNew : <<commaLocNew>> \o LocsAfter(str, commaLocNew, n - 1))

\* The n values commaLocNew takes in the parse of a line: the first search
\* starts at 0.
CommaLocs(str, n) ==
    Bind(Find(str, 0), LAMBDA commaLocNew :
        <<commaLocNew>> \o LocsAfter(str, commaLocNew, n - 1))

\* ChestConventions::GetChestTypeValueFromName: the code of the name the
\* text is, UNDEFINEDTYPE when it is no chest type name.
GetChestTypeValueFromName(text) ==
    IF Len(text) = 1 /\ text[1].k = "name" /\ text[1].v \in 0 .. LastGeneration
    THEN AIRWAYGENERATION0 + text[1].v
    ELSE UNDEFINEDTYPE

----------------------------------------------------------------------------
\* Files and streams.

\* A file: whether it can be opened, its lines, and whether its last line
\* ends with a newline.
MissingFile == [exists |-> FALSE, lines |-> <<>>, terminated |-> TRUE]

TextFile(lines, terminated) ==
    [exists |-> TRUE, lines |-> lines,
     terminated |-> (terminated \/ lines = <<>>)]

NoStream == [file |-> "NA", pos |-> 0, eof |-> FALSE, fail |-> FALSE]

\* std::ifstream file( fileName.c_str() ): a file that cannot be opened
\* leaves the stream failed.
Open(fileName) ==
    [file |-> fileName, pos |-> 0, eof |-> FALSE, fail |-> ~disk[fileName].exists]

\* What an array of char holds before anything is written to it, which the
\* loaders read past the end of the line: nulls, characters that are neither
\* commas nor digits, or commas and digits.
UninitializedBuffers ==
    {[k \in 1 .. BufLen |-> Nul],
     [k \in 1 .. BufLen |-> Junk],
     [k \in 1 .. BufLen |-> IF k % 2 = 1 THEN Comma ELSE Num(99)]}

\* buf with text and a terminating null written at its start.
Store(buf, text) ==
    [k \in 1 .. BufLen |->
        IF k <= Len(text) THEN text[k]
        ELSE IF k = Len(text) + 1 THEN Nul
        ELSE buf[k]]

\* file.getline( wholeLine, 100000 ) on stream st and buffer buf: the stream
\* and the buffer after it.  A stream that is not good extracts nothing and
\* fails; the end of the file with no character extracted sets eofbit and
\* failbit; a last line without a newline is stored and sets eofbit; a line
\* that does not fit the buffer fills it and sets failbit.  A null is
\* stored in every case.
GetLine(st, buf) ==
    LET f == disk[st.file]
        line == f.lines[st.pos + 1]
    IN  IF st.fail \/ st.eof
        THEN [st |-> [st EXCEPT !.fail = TRUE], buf |-> Store(buf, <<>>)]
        ELSE IF st.pos >= Len(f.lines)
        THEN [st |-> [st EXCEPT !.eof = TRUE, !.fail = TRUE],
              buf |-> Store(buf, <<>>)]
        ELSE IF Len(line) >= BufLen
        THEN [st |-> [st EXCEPT !.fail = TRUE],
              buf |-> Store(buf, SubSeq(line, 1, BufLen - 1))]
        ELSE [st |-> [st EXCEPT !.pos = st.pos + 1,
                                !.eof = (st.pos + 1 = Len(f.lines)
                                           /\ ~f.terminated)],
              buf |-> Store(buf, line)]

\* The calls made, in order.
Event(op, a) == [op |-> op, args |-> a]

Log(tr, events) ==
    LET all == tr \o events
    IN  IF Len(all) <= MaxTrace THEN all ELSE SubSeq(all, 1, MaxTrace)

----------------------------------------------------------------------------
\* SetEmissionProbabilityStatsFromFile

\* The fields the loop body cuts out of strLine( wholeLine, 100000 ).
ParseEmissionLine(strLine) ==
    Bind(CommaLocs(strLine, 8), LAMBDA loc :
        [cipTypeName |-> CStr(Substr(strLine, 0, Add32(Sub32(loc[1], 0), 1))),
         scaleDiffMean |-> Atof(Field(strLine, loc[1], loc[2])),
         scaleDiffSTD |-> Atof(Field(strLine, loc[2], loc[3])),
         distanceMean |-> Atof(Field(strLine, loc[3], loc[4])),
         distanceSTD |-> Atof(Field(strLine, loc[4], loc[5])),
         angleMean |-> Atof(Field(strLine, loc[5], loc[6])),
         angleSTD |-> Atof(Field(strLine, loc[6], loc[7])),
         numSamples |-> Atof(Field(strLine, loc[7], loc[8]))])

\* The six setters called for a row of a known chest type.
EmissionSetters(cipType, row) ==
    <<Event("SetScaleStandardDeviation", <<cipType, row.scaleDiffSTD>>),
      Event("SetDistanceStandardDeviation", <<cipType, row.distanceSTD>>),
      Event("SetAngleStandardDeviation", <<cipType, row.angleSTD>>),
      Event("SetScaleMean", <<cipType, row.scaleDiffMean>>),
      Event("SetDistanceMean", <<cipType, row.distanceMean>>),
      Event("SetAngleMean", <<cipType, row.angleMean>>)>>

\* main's test of the file name.
SkipEmission ==
    /\ pc = "emission"
    /\ args.emissionProbabilityStatsFileName = "NA"
    /\ pc' = "transitionStats"
    /\ UNCHANGED <<args, disk, numberOfEnumeratedChestRegions, stream, wholeLine,
                   keepChecking, rowIndex, atlasIndex, trace>>

\* The call: the stream is opened and the header line read.
EmissionOpen ==
    /\ pc = "emission"
    /\ args.emissionProbabilityStatsFileName # "NA"
    /\ \E buf \in UninitializedBuffers :
         \E got \in {GetLine(Open(args.emissionProbabilityStatsFileName), buf)} :
             /\ stream' = got.st
             /\ wholeLine' = got.buf
    /\ keepChecking' = TRUE
    /\ trace' = Log(trace, <<Event("SetEmissionProbabilityStatsFromFile", <<>>)>>)
    /\ pc' = "emissionLoop"
    /\ UNCHANGED <<args, disk, numberOfEnumeratedChestRegions, rowIndex, atlasIndex>>

\* One pass of the do-while loop, with its test; the function returns when
\* the test fails.
EmissionIterate ==
    /\ pc = "emissionLoop"
    /\ \E got \in {GetLine(stream, wholeLine)} :
       \E row \in {ParseEmissionLine(got.buf)} :
       LET cipType == GetChestTypeValueFromName(row.cipTypeName)
           known == cipType > 0 /\ cipType < numberOfEnumeratedChestRegions
           keep == IF got.st.eof THEN keepChecking ELSE known
       IN  /\ trace' = IF ~got.st.eof /\ known
                       THEN Log(trace, EmissionSetters(cipType, row))
                       ELSE trace
           /\ IF ~got.st.eof /\ keep
              THEN /\ stream' = got.st
                   /\ wholeLine' = got.buf
                   /\ keepChecking' = keep
                   /\ pc' = pc
              ELSE /\ stream' = NoStream
                   /\ wholeLine' = <<>>
                   /\ keepChecking' = TRUE
                   /\ pc' = "transitionStats"
    /\ UNCHANGED <<args, disk, numberOfEnumeratedChestRegions, rowIndex, atlasIndex>>

----------------------------------------------------------------------------
\* SetTransitionProbabilitiesFromFile

\* The eleven probabilities without the case of column 0 (a slip): column 0
\* is cut out like the others, after position 0.
ParseTransitionLineNoFirstColumnCase(strLine) ==
    Bind(<<0>> \o LocsAfter(strLine, 0, LastGeneration + 1), LAMBDA loc :
        [j \in 1 .. LastGeneration + 1 |->
            Atof(Field(strLine, loc[j], loc[j + 1]))])

\* The eleven probabilities the inner loop reads from a line; column 0 has
\* its own case.
ParseTransitionLine(strLine) ==
    Bind(CommaLocs(strLine, LastGeneration + 1), LAMBDA loc :
        [j \in 1 .. LastGeneration + 1 |->
            IF j = 1
            THEN Atof(Substr(strLine, 0, Add32(Sub32(loc[1], 0), 1)))
            ELSE Atof(Field(strLine, loc[j - 1], loc[j]))])

SkipTransition ==
    /\ pc = "transition"
    /\ args.transitionProbabilitiesFileName = "NA"
    /\ pc' = "emission"
    /\ UNCHANGED <<args, disk, numberOfEnumeratedChestRegions, stream, wholeLine,
                   keepChecking, rowIndex, atlasIndex, trace>>

\* The call: the stream is opened; no header is read.
TransitionOpen ==
    /\ pc = "transition"
    /\ args.transitionProbabilitiesFileName # "NA"
    /\ stream' = Open(args.transitionProbabilitiesFileName)
    /\ wholeLine' \in UninitializedBuffers
    /\ rowIndex' = 0
    /\ trace' = Log(trace, <<Event("SetTransitionProbabilitiesFromFile", <<>>)>>)
    /\ pc' = "transitionLoop"
    /\ UNCHANGED <<args, disk, numberOfEnumeratedChestRegions, keepChecking,
                   atlasIndex>>

\* One pass of the outer loop: a line is read and its eleven probabilities
\* are set; the function returns after the pass for i = 10.
TransitionRow ==
    /\ pc = "transitionLoop"
    /\ rowIndex <= LastGeneration
    /\ \E got \in {GetLine(stream, wholeLine)} :
       \E probs \in {ParseTransitionLine(got.buf)} :
       LET fromType == (rowIndex + AIRWAYGENERATION0) % 256
       IN  /\ trace' = Log(trace,
                  [j \in 1 .. LastGeneration + 1 |->
                      Event("SetTransitionProbability",
                            <<fromType, (j - 1 + AIRWAYGENERATION0) % 256,
                              probs[j]>>)])
           /\ IF rowIndex < LastGeneration
              THEN /\ stream' = got.st
                   /\ wholeLine' = got.buf
                   /\ rowIndex' = rowIndex + 1
                   /\ pc' = pc
              ELSE /\ stream' = NoStream
                   /\ wholeLine' = <<>>
                   /\ rowIndex' = 0
                   /\ pc' = "emission"
    /\ UNCHANGED <<args, disk, numberOfEnumeratedChestRegions, keepChecking,
                   atlasIndex>>

----------------------------------------------------------------------------
\* SetTransitionProbabilityStatsFromFile

ParseStatsLine(strLine) ==
    Bind(CommaLocs(strLine, 7), LAMBDA loc :
        [fromTypeName |-> CStr(Substr(strLine, 0, Sub32(loc[1], 0))),
         toTypeName |-> Field(strLine, loc[1], loc[2]),
         scaleDiffMean |-> Atof(Field(strLine, loc[2], loc[3])),
         scaleDiffSTD |-> Atof(Field(strLine, loc[3], loc[4])),
         angleMean |-> Atof(Field(strLine, loc[4], loc[5])),
         angleSTD |-> Atof(Field(strLine, loc[5], loc[6])),
         numSamples |-> Atof(Field(strLine, loc[6], loc[7]))])

\* The call the loop makes for a parsed row.
StatsSetter(row) ==
    Event("SetNormalTransitionProbabilityMeansAndVariances",
          <<GetChestTypeValueFromName(row.fromTypeName),
            GetChestTypeValueFromName(row.toTypeName),
            row.scaleDiffMean, row.scaleDiffSTD * row.scaleDiffSTD,
            row.angleMean, row.angleSTD * row.angleSTD>>)

SkipStats ==
    /\ pc = "transitionStats"
    /\ args.transitionProbabilityStatsFileName = "NA"
    /\ pc' = "atlases"
    /\ UNCHANGED <<args, disk, numberOfEnumeratedChestRegions, stream, wholeLine,
                   keepChecking, rowIndex, atlasIndex, trace>>

\* The call: the stream is opened and the header line read.
StatsOpen ==
    /\ pc = "transitionStats"
    /\ args.transitionProbabilityStatsFileName # "NA"
    /\ \E buf \in UninitializedBuffers :
         \E got \in {GetLine(Open(args.transitionProbabilityStatsFileName), buf)} :
             /\ stream' = got.st
             /\ wholeLine' = got.buf
    /\ trace' = Log(trace, <<Event("SetTransitionProbabilityStatsFromFile", <<>>)>>)
    /\ pc' = "transitionStatsLoop"
    /\ UNCHANGED <<args, disk, numberOfEnumeratedChestRegions, keepChecking,
                   rowIndex, atlasIndex>>

\* One pass of the do-while loop, with its test; the function returns when
\* the stream is at the end of the file.
StatsIterate ==
    /\ pc = "transitionStatsLoop"
    /\ \E got \in {GetLine(stream, wholeLine)} :
       \E row \in {ParseStatsLine(got.buf)} :
           /\ trace' = IF ~got.st.eof /\ row.numSamples > MinSamples
                       THEN Log(trace, <<StatsSetter(row)>>)
                       ELSE trace
           /\ IF ~got.st.eof
              THEN /\ stream' = got.st
                   /\ wholeLine' = got.buf
                   /\ pc' = pc
              ELSE /\ stream' = NoStream
                   /\ wholeLine' = <<>>
                   /\ pc' = "atlases"
    /\ UNCHANGED <<args, disk, numberOfEnumeratedChestRegions, keepChecking,
                   rowIndex, atlasIndex>>

----------------------------------------------------------------------------
\* main

FileNames == {"tp.csv", "em.csv", "tps.csv"}

\* A failed parse of the command line ends the run.
ParseArguments ==
    /\ pc = "start"
    /\ pc' = IF args.ok THEN "setup" ELSE "argumentParsingError"
    /\ UNCHANGED <<args, disk, numberOfEnumeratedChestRegions, stream, wholeLine,
                   keepChecking, rowIndex, atlasIndex, trace>>

\* The calls made on the new filter before any parameter file is read.
SetupEvents(a) ==
    <<Event("SetInput", <<>>),
      Event("SetParticleDistanceThreshold", <<a.particleDistanceThreshold>>),
      Event("SetKernelDensityEstimationROIRadius", <<>>)>>

\* The particles are read and the filter is created and given its input and
\* its two numbers.
Setup ==
    /\ pc = "setup"
    /\ trace' = Log(trace, SetupEvents(args))
    /\ pc' = "transition"
    /\ UNCHANGED <<args, disk, numberOfEnumeratedChestRegions, stream, wholeLine,
                   keepChecking, rowIndex, atlasIndex>>

\* One pass of the loop over the atlas file names.
AddAtlas ==
    /\ pc = "atlases"
    /\ atlasIndex < args.atlases
    /\ trace' = Log(trace, <<Event("AddAirwayGenerationLabeledAtlas", <<atlasIndex>>)>>)
    /\ atlasIndex' = atlasIndex + 1
    /\ UNCHANGED <<args, disk, numberOfEnumeratedChestRegions, pc, stream,
                   wholeLine, keepChecking, rowIndex>>

\* A slip: Update() inside the loop over the atlases.
UpdateFilterInsideLoop ==
    /\ pc = "atlases"
    /\ atlasIndex > 0
    /\ trace' = Log(trace, <<Event("Update", <<>>)>>)
    /\ pc' = IF atlasIndex < args.atlases THEN pc ELSE "write"
    /\ UNCHANGED <<args, disk, numberOfEnumeratedChestRegions, stream, wholeLine,
                   keepChecking, rowIndex, atlasIndex>>

\* particlesToGenLabeledParticles->Update(), after the loop.
UpdateFilter ==
    /\ pc = "atlases"
    /\ atlasIndex >= args.atlases
    /\ trace' = Log(trace, <<Event("Update", <<>>)>>)
    /\ pc' = "write"
    /\ UNCHANGED <<args, disk, numberOfEnumeratedChestRegions, stream, wholeLine,
                   keepChecking, rowIndex, atlasIndex>>

\* particlesWriter->Update().
WriteOutput ==
    /\ pc = "write"
    /\ trace' = Log(trace, <<Event("Write", <<>>)>>)
    /\ pc' = "report"
    /\ UNCHANGED <<args, disk, numberOfEnumeratedChestRegions, stream, wholeLine,
                   keepChecking, rowIndex, atlasIndex>>

\* The optional report and the return of EXITSUCCESS; the report reads the
\* two datasets and calls nothing on the filter.
Finish ==
    /\ pc = "report"
    /\ pc' = "done"
    /\ UNCHANGED <<args, disk, numberOfEnumeratedChestRegions, stream, wholeLine,
                   keepChecking, rowIndex, atlasIndex, trace>>

----------------------------------------------------------------------------
\* The graph over the particles and the oriented forest derived from it (the
\* labeling filter, whose code is not among the sources at hand): the edges
\* are examined by nondecreasing weight and one is kept when it joins two
\* components (the weights are any, so the edges are examined in any
\* order); then, component by component, the node of lowest index is
\* the root and the kept edges are directed away from it by a breadth-first
\* traversal, neighbours in the order of their indices.

Nodes == 0 .. NumNodes - 1

Pairs == {p \in Nodes \X Nodes : p[1] < p[2]}

\* A slip: every edge is kept.
JoinsAlways(e, comp) == TRUE

\* The edge joins two components of the edges kept so far.
JoinsComponents(e, comp) == comp[e[1]] # comp[e[2]]

RECURSIVE SortedSeq(_)
SortedSeq(S) == IF S = {} THEN <<>> ELSE <<Min(S)>> \o SortedSeq(S \ {Min(S)})

\* The next edge, whichever the weights make it, is examined.
ExamineEdge ==
    /\ forestPc = "span"
    /\ \E e \in unexamined :
         /\ unexamined' = unexamined \ {e}
         /\ IF JoinsComponents(e, component)
            THEN /\ spanningEdges' = spanningEdges \cup {e}
                 /\ component' = [n \in Nodes |->
                                     IF component[n] = component[e[2]]
                                     THEN component[e[1]]
                                     ELSE component[n]]
            ELSE UNCHANGED <<spanningEdges, component>>
    /\ UNCHANGED <<edges, forestArcs, reached, roots, queue, forestPc>>

FinishSpanning ==
    /\ forestPc = "span"
    /\ unexamined = {}
    /\ forestPc' = "orient"
    /\ UNCHANGED <<edges, unexamined, component, spanningEdges, forestArcs,
                   reached, roots, queue>>

\* The node of lowest index not yet reached is the root of its component.
ChooseRoot ==
    /\ forestPc = "orient"
    /\ queue = <<>>
    /\ reached # Nodes
    /\ \E root \in {Min(Nodes \ reached)} :
         /\ roots' = roots \cup {root}
         /\ reached' = reached \cup {root}
         /\ queue' = <<root>>
    /\ UNCHANGED <<edges, unexamined, component, spanningEdges, forestArcs,
                   forestPc>>

\* The node at the head of the queue is visited: its kept edges that have
\* no direction yet are directed away from it.
VisitNode ==
    /\ forestPc = "orient"
    /\ queue # <<>>
    /\ \E u \in {Head(queue)} :
       \E others \in {{v \in Nodes :
                          /\ (<<u, v>> \in spanningEdges \/ <<v, u>> \in spanningEdges)
                          /\ <<u, v>> \notin forestArcs
                          /\ <<v, u>> \notin forestArcs}} :
         /\ forestArcs' = forestArcs \cup {<<u, v>> : v \in others}
         /\ queue' = Tail(queue) \o SortedSeq(others \ reached)
         /\ reached' = reached \cup others
    /\ UNCHANGED <<edges, unexamined, component, spanningEdges, roots,
                   forestPc>>

FinishOrientation ==
    /\ forestPc = "orient"
    /\ queue = <<>>
    /\ reached = Nodes
    /\ forestPc' = "done"
    /\ UNCHANGED <<edges, unexamined, component, spanningEdges, forestArcs,
                   reached, roots, queue>>

ForestIdle ==
    /\ edges = {}
    /\ unexamined = {}
    /\ component = [n \in Nodes |-> n]
    /\ spanningEdges = {}
    /\ forestArcs = {}
    /\ reached = {}
    /\ roots = {}
    /\ queue = <<>>
    /\ forestPc = "idle"

----------------------------------------------------------------------------
\* main's optional report (lines 230-307): Dice scores and confusion matrix.

\* The labels a particle carries, as unsigned char: none, the first
\* generations, the last but one and the last.
Labels == {UNDEFINEDTYPE, AIRWAYGENERATION0, AIRWAYGENERATION0 + 1,
           AIRWAYGENERATION0 + LastGeneration - 1,
           AIRWAYGENERATION0 + LastGeneration}

\* statesVec: the eleven generations, then UNDEFINEDTYPE.
statesVec ==
    [i \in 1 .. LastGeneration + 2 |->
        IF i <= LastGeneration + 1 THEN AIRWAYGENERATION0 + i - 1
        ELSE UNDEFINEDTYPE]

States == {statesVec[i] : i \in DOMAIN statesVec}

\* A std::map of counters: a key not inserted yet reads as 0, which is the
\* value operator[] inserts.
ZeroCounter == [t \in States \cup Labels |-> 0]

Increment(counter, key) == [counter EXCEPT ![key] = @ + 1]

\* confusionMatrix after lines 233-242.
NewConfusionMatrix ==
    [i \in 0 .. MatrixSize - 1 |-> [j \in 0 .. MatrixSize - 1 |-> 0]]

\* The index is inside a vector of that size; inType-38 below zero is, as
\* size_type, beyond every size.
InVector(index, size) == index >= 0 /\ index < size

NoCell == [used |-> FALSE, inType |-> 0, outType |-> 0, row |-> 0, col |-> 0]

\* printDiceScores is not set: nothing is reported.
SkipReport ==
    /\ dicePc = "report"
    /\ ~printDiceScores
    /\ dicePc' = "done"
    /\ UNCHANGED <<labels, printDiceScores, confusionMatrix, intersectionCounter,
                   inTypeCounter, outTypeCounter, particleI, lastCell, diceOut,
                   matrixOut>>

\* Lines 233-267: the matrix and the three counters, all zero.
StartReport ==
    /\ dicePc = "report"
    /\ printDiceScores
    /\ confusionMatrix' = NewConfusionMatrix
    /\ intersectionCounter' = ZeroCounter
    /\ inTypeCounter' = ZeroCounter
    /\ outTypeCounter' = ZeroCounter
    /\ particleI' = 0
    /\ dicePc' = "count"
    /\ UNCHANGED <<labels, printDiceScores, lastCell, diceOut, matrixOut>>

\* The three counters after lines 276-281, from counters c.
Counted(c, inType, outType) ==
    [intersection |-> IF inType = outType
                      THEN Increment(c.intersection, inType)
                      ELSE c.intersection,
     inTypes |-> Increment(c.inTypes, inType),
     outTypes |-> Increment(c.outTypes, outType)]

\* What an increment through an index outside the matrix can leave when the
\* run goes on: nothing of the report touched, or one counter of the report
\* one higher.
StrayIncrements(c) ==
    {c}
    \cup {[c EXCEPT !.intersection = Increment(@, t)] : t \in Labels}
    \cup {[c EXCEPT !.inTypes = Increment(@, t)] : t \in Labels}
    \cup {[c EXCEPT !.outTypes = Increment(@, t)] : t \in Labels}

\* One pass of the loop over the particles (lines 270-282). An index outside
\* the matrix is undefined behaviour: the run ends there, or goes on with
\* one of StrayIncrements.
CountParticle ==
    /\ dicePc = "count"
    /\ particleI < Len(labels)
    /\ \E inType \in {labels[particleI + 1].inType},
          outType \in {labels[particleI + 1].outType} :
       \E row \in {inType - AIRWAYGENERATION0}, col \in {outType - AIRWAYGENERATION0},
          c \in {[intersection |-> intersectionCounter, inTypes |-> inTypeCounter,
                  outTypes |-> outTypeCounter]} :
         /\ lastCell' = [used |-> TRUE, inType |-> inType, outType |-> outType,
                         row |-> row, col |-> col]
         /\ IF InVector(row, MatrixSize) /\ InVector(col, MatrixSize)
            THEN /\ confusionMatrix' = [confusionMatrix EXCEPT ![row][col] = @ + 1]
                 /\ \E n \in {Counted(c, inType, outType)} :
                      /\ intersectionCounter' = n.intersection
                      /\ inTypeCounter' = n.inTypes
                      /\ outTypeCounter' = n.outTypes
                 /\ particleI' = particleI + 1
                 /\ dicePc' = dicePc
            ELSE \/ /\ dicePc' = "crashed"
                    /\ UNCHANGED <<confusionMatrix, intersectionCounter,
                                   inTypeCounter, outTypeCounter, particleI>>
                 \/ /\ \E s \in StrayIncrements(c) :
                       \E n \in {Counted(s, inType, outType)} :
                         /\ intersectionCounter' = n.intersection
                         /\ inTypeCounter' = n.inTypes
                         /\ outTypeCounter' = n.outTypes
                    /\ particleI' = particleI + 1
                    /\ dicePc' = dicePc
                    /\ UNCHANGED confusionMatrix
    /\ UNCHANGED <<labels, printDiceScores, diceOut, matrixOut>>

RECURSIVE DiceLines(_)
\* The lines printed by lines 285-296 for statesVec[1..i]: label and
\* 2.0*num/denom, when denom > 0.0. The casts to float are exact for the
\* counts considered.
DiceLines(i) ==
    IF i = 0 THEN <<>>
    ELSE LET t == statesVec[i]
             num == intersectionCounter[t]
             denom == inTypeCounter[t] + outTypeCounter[t]
         IN  IF denom > 0
             THEN Append(DiceLines(i - 1), [label |-> t, score |-> Frac(2 * num, denom)])
             ELSE DiceLines(i - 1)

\* Lines 284-296: the Dice scores are printed.
ReportDice ==
    /\ dicePc = "count"
    /\ particleI >= Len(labels)
    /\ diceOut' = DiceLines(Len(statesVec))
    /\ dicePc' = "matrix"
    /\ UNCHANGED <<labels, printDiceScores, confusionMatrix, intersectionCounter,
                   inTypeCounter, outTypeCounter, particleI, lastCell, matrixOut>>

\* Lines 298-306: the matrix is printed, row by row.
PrintConfusionMatrix ==
    /\ dicePc = "matrix"
    /\ matrixOut' = [i \in 1 .. MatrixSize |->
                        [j \in 1 .. MatrixSize |-> confusionMatrix[i - 1][j - 1]]]
    /\ dicePc' = "done"
    /\ UNCHANGED <<labels, printDiceScores, confusionMatrix, intersectionCounter,
                   inTypeCounter, outTypeCounter, particleI, lastCell, diceOut>>

DiceIdle ==
    /\ labels = <<>>
    /\ printDiceScores = FALSE
    /\ confusionMatrix = <<>>
    /\ intersectionCounter = ZeroCounter
    /\ inTypeCounter = ZeroCounter
    /\ outTypeCounter = ZeroCounter
    /\ particleI = 0
    /\ lastCell = NoCell
    /\ diceOut = <<>>
    /\ matrixOut = <<>>
    /\ dicePc = "idle"

NoEval == [called |-> FALSE, i |-> 0, j |-> 0, result |-> FALSE]

----------------------------------------------------------------------------
\* The parameter files considered.

Seeds == 0 .. MaxSeed

\* The sequences over S of length at most n.
BoundedSeq(S, n) == UNION {[1 .. k -> S] : k \in 0 .. n}

\* The fields of a line, separated by commas.
RECURSIVE Join(_)
Join(fields) ==
    IF Len(fields) <= 1
    THEN fields
    ELSE <<fields[1], Comma>> \o Join(Tail(fields))

\* The number in column c of data row r of a statistics file of seed s: the
\* columns and the rows of a file all differ.
Cell(s, r, c) == 100 * s + 10 * r + c + 1

Header(n) == Join([c \in 1 .. n |-> ColumnTitle])

\* Emission statistics: a name and seven numbers a row.  A row kind is the
\* name and how many numbers follow it (seven in a well-formed row).
EmissionRowKinds ==
    {[name |-> Name(0), n |-> 7], [name |-> Name(1), n |-> 7],
     [name |-> Name(2), n |-> 7], [name |-> UnknownName, n |-> 7],
     [name |-> Name(1), n |-> 2]}

EmissionRow(kind, s, r) ==
    Join(<<kind.name>> \o [c \in 1 .. kind.n |-> Num(Cell(s, r, c))])

EmissionFile(kinds, s, terminated) ==
    TextFile(<<Header(8)>> \o [r \in 1 .. Len(kinds) |-> EmissionRow(kinds[r], s, r)],
             terminated)

EmissionFiles ==
    {MissingFile, TextFile(<<>>, TRUE)}
    \cup {EmissionFile(kinds, s, t) :
            kinds \in BoundedSeq(EmissionRowKinds, MaxRows),
            s \in Seeds, t \in BOOLEAN}

\* Transition statistics: two names, four numbers and the sample count.
StatsRowKinds ==
    {[from |-> Name(0), to |-> Name(1), samples |-> MinSamples + 1],
     [from |-> Name(0), to |-> Name(1), samples |-> MinSamples],
     [from |-> Name(1), to |-> Name(2), samples |-> MinSamples + 1],
     [from |-> UnknownName, to |-> Name(1), samples |-> MinSamples + 1]}

StatsRow(kind, s, r) ==
    Join(<<kind.from, kind.to>> \o [c \in 1 .. 4 |-> Num(Cell(s, r, c))]
         \o <<Num(kind.samples)>>)

StatsFile(kinds, s, terminated) ==
    TextFile(<<Header(7)>> \o [r \in 1 .. Len(kinds) |-> StatsRow(kinds[r], s, r)],
             terminated)

StatsFiles ==
    {MissingFile, TextFile(<<>>, TRUE)}
    \cup {StatsFile(kinds, s, t) :
            kinds \in BoundedSeq(StatsRowKinds, MaxRows),
            s \in Seeds, t \in BOOLEAN}

\* Transition probabilities: a grid of numbers, no header.  The number in
\* row i, column j of the grid of seed s; all cells of a grid differ and none
\* is 0.
GridCell(s, i, j) == 1000 * s + (LastGeneration + 1) * i + j + 1

GridRow(s, i, columns) == Join([c \in 1 .. columns |-> Num(GridCell(s, i, c - 1))])

\* A grid file of the given number of rows; row number short (if any) has
\* only five columns.
TransitionFile(s, rows, short, terminated) ==
    TextFile([r \in 1 .. rows |->
                 GridRow(s, r - 1, IF r = short THEN 5 ELSE LastGeneration + 1)],
             terminated)

TransitionFiles ==
    {MissingFile}
    \cup {TransitionFile(s, rows, short, t) :
            s \in Seeds, rows \in 0 .. LastGeneration + 1,
            short \in 0 .. LastGeneration + 1, t \in BOOLEAN}

----------------------------------------------------------------------------
\* Initial states.

\* The variables of the part of the program a specification leaves out.
ConnIdle ==
    /\ particles = [i \in ParticleIndices |->
                       [scale |-> 1, point |-> <<0, 0, 0>>, hevec2 |-> <<1, 0, 0>>]]
    /\ ScaleRatioThreshold = DefaultScaleRatioThreshold
    /\ ParticleDistanceThreshold = DefaultParticleDistanceThreshold
    /\ ParticleAngleThreshold = 90
    /\ lastEval = NoEval

NoArgs ==
    [ok |-> TRUE,
     transitionProbabilitiesFileName |-> "NA",
     emissionProbabilityStatsFileName |-> "NA",
     transitionProbabilityStatsFileName |-> "NA",
     particleDistanceThreshold |-> DefaultParticleDistanceThreshold,
     atlases |-> 1]

\* The counts of chest regions considered: ChestConventions is not part of
\* the sources at hand; one count is below every generation code and one is
\* above them all.
RegionCounts == {AIRWAYGENERATION0, AIRWAYGENERATION0 + LastGeneration + 1}

LocalsIdle ==
    /\ stream = NoStream
    /\ wholeLine = <<>>
    /\ keepChecking = TRUE
    /\ rowIndex = 0
    /\ atlasIndex = 0

MainIdle ==
    /\ args = NoArgs
    /\ disk = [n \in FileNames |-> MissingFile]
    /\ numberOfEnumeratedChestRegions = AIRWAYGENERATION0 + LastGeneration + 1
    /\ pc = "idle"
    /\ LocalsIdle
    /\ trace = <<>>

\* A filter over a particle set: the constructor's scale ratio threshold;
\* the distance and angle thresholds are the base class's, any of the
\* values considered.
ConnInit ==
    /\ particles \in [ParticleIndices -> Particle]
    /\ ScaleRatioThreshold = DefaultScaleRatioThreshold
    /\ ParticleDistanceThreshold \in DistanceThresholds
    /\ ParticleAngleThreshold \in AngleThresholds
    /\ lastEval = NoEval
    /\ MainIdle
    /\ ForestIdle
    /\ DiceIdle
    /\ passes = 0

SetScaleRatioThreshold(threshold) ==
    /\ ScaleRatioThreshold' = threshold
    /\ lastEval' = NoEval
    /\ UNCHANGED <<particles, ParticleDistanceThreshold, ParticleAngleThreshold>>
    /\ UNCHANGED <<mainVars, forestVars, diceVars, passes>>

SetScaleRatioThresholdCall ==
    \E threshold \in ScaleRatioThresholds : SetScaleRatioThreshold(threshold)

EvaluateCall ==
    \E i \in ParticleIndices, j \in ParticleIndices :
        /\ lastEval' = [called |-> TRUE, i |-> i, j |-> j,
                        result |-> EvaluateParticleConnectedness(i, j)]
        /\ UNCHANGED <<particles, ScaleRatioThreshold, ParticleDistanceThreshold,
                       ParticleAngleThreshold>>
        /\ UNCHANGED <<mainVars, forestVars, diceVars, passes>>

ConnNext == SetScaleRatioThresholdCall \/ EvaluateCall

SpecConn == ConnInit /\ [][ConnNext]_vars

----------------------------------------------------------------------------
\* The emission statistics loader, called by main on a file of EmissionFiles.

EmissionInit ==
    /\ ConnIdle
    /\ args = [NoArgs EXCEPT !.emissionProbabilityStatsFileName = "em.csv"]
    /\ \E f \in EmissionFiles :
         disk = [n \in FileNames |-> IF n = "em.csv" THEN f ELSE MissingFile]
    /\ numberOfEnumeratedChestRegions \in RegionCounts
    /\ pc = "emission"
    /\ LocalsIdle
    /\ ForestIdle
    /\ DiceIdle
    /\ passes = 0
    /\ trace = SetupEvents(args)

EmissionNext ==
    \/ (EmissionOpen /\ UNCHANGED <<connVars, forestVars, diceVars, passes>>)
    \/ (EmissionIterate /\ UNCHANGED <<connVars, forestVars, diceVars, passes>>)

SpecEmission == EmissionInit /\ [][EmissionNext]_vars

\* The transition probabilities loader, on a file of TransitionFiles.

TransitionInit ==
    /\ ConnIdle
    /\ args = [NoArgs EXCEPT !.transitionProbabilitiesFileName = "tp.csv"]
    /\ \E f \in TransitionFiles :
         disk = [n \in FileNames |-> IF n = "tp.csv" THEN f ELSE MissingFile]
    /\ numberOfEnumeratedChestRegions \in RegionCounts
    /\ pc = "transition"
    /\ LocalsIdle
    /\ ForestIdle
    /\ DiceIdle
    /\ passes = 0
    /\ trace = SetupEvents(args)

TransitionNext ==
    \/ (TransitionOpen /\ UNCHANGED <<connVars, forestVars, diceVars, passes>>)
    \/ (TransitionRow /\ UNCHANGED <<connVars, forestVars, diceVars, passes>>)

SpecTransition == TransitionInit /\ [][TransitionNext]_vars

\* The transition statistics loader, on a file of StatsFiles.

StatsInit ==
    /\ ConnIdle
    /\ args = [NoArgs EXCEPT !.transitionProbabilityStatsFileName = "tps.csv"]
    /\ \E f \in StatsFiles :
         disk = [n \in FileNames |-> IF n = "tps.csv" THEN f ELSE MissingFile]
    /\ numberOfEnumeratedChestRegions \in RegionCounts
    /\ pc = "transitionStats"
    /\ LocalsIdle
    /\ ForestIdle
    /\ DiceIdle
    /\ passes = 0
    /\ trace = SetupEvents(args)

StatsNext ==
    \/ (StatsOpen /\ UNCHANGED <<connVars, forestVars, diceVars, passes>>)
    \/ (StatsIterate /\ UNCHANGED <<connVars, forestVars, diceVars, passes>>)

SpecStats == StatsInit /\ [][StatsNext]_vars

\* main, from the command line to its return, on a few files of each kind.

MainTransitionFiles ==
    {TransitionFile(0, LastGeneration + 1, 0, TRUE),
     TransitionFile(0, 3, 0, TRUE)}

MainEmissionFiles ==
    {EmissionFile(<<[name |-> Name(0), n |-> 7]>>, 0, TRUE),
     EmissionFile(<<[name |-> UnknownName, n |-> 7],
                    [name |-> Name(1), n |-> 7]>>, 0, TRUE)}

MainStatsFiles ==
    {StatsFile(<<[from |-> Name(0), to |-> Name(1), samples |-> MinSamples + 1]>>,
               0, TRUE),
     StatsFile(<<[from |-> UnknownName, to |-> Name(1), samples |-> MinSamples + 1],
                 [from |-> Name(1), to |-> Name(2), samples |-> MinSamples]>>,
               0, FALSE),
     MissingFile}

MainInit ==
    /\ ConnIdle
    /\ args \in [ok : BOOLEAN,
                 transitionProbabilitiesFileName : {"NA", "tp.csv"},
                 emissionProbabilityStatsFileName : {"NA", "em.csv"},
                 transitionProbabilityStatsFileName : {"NA", "tps.csv"},
                 particleDistanceThreshold : DistanceThresholds,
                 atlases : 1 .. MaxAtlases]
    /\ \E tp \in MainTransitionFiles, em \in MainEmissionFiles,
          tps \in MainStatsFiles :
         disk = [n \in FileNames |->
                    CASE n = "tp.csv" /\ args.transitionProbabilitiesFileName = n -> tp
                      [] n = "em.csv" /\ args.emissionProbabilityStatsFileName = n -> em
                      [] n = "tps.csv" /\ args.transitionProbabilityStatsFileName = n -> tps
                      [] OTHER -> MissingFile]
    /\ numberOfEnumeratedChestRegions \in RegionCounts
    /\ pc = "start"
    /\ LocalsIdle
    /\ ForestIdle
    /\ DiceIdle
    /\ passes = 0
    /\ trace = <<>>

MainNext ==
    \/ (ParseArguments /\ UNCHANGED <<connVars, forestVars, diceVars, passes>>)
    \/ (Setup /\ UNCHANGED <<connVars, forestVars, diceVars, passes>>)
    \/ (SkipTransition /\ UNCHANGED <<connVars, forestVars, diceVars, passes>>)
    \/ (TransitionOpen /\ UNCHANGED <<connVars, forestVars, diceVars, passes>>)
    \/ (TransitionRow /\ UNCHANGED <<connVars, forestVars, diceVars, passes>>)
    \/ (SkipEmission /\ UNCHANGED <<connVars, forestVars, diceVars, passes>>)
    \/ (EmissionOpen /\ UNCHANGED <<connVars, forestVars, diceVars, passes>>)
    \/ (EmissionIterate /\ UNCHANGED <<connVars, forestVars, diceVars, passes>>)
    \/ (SkipStats /\ UNCHANGED <<connVars, forestVars, diceVars, passes>>)
    \/ (StatsOpen /\ UNCHANGED <<connVars, forestVars, diceVars, passes>>)
    \/ (StatsIterate /\ UNCHANGED <<connVars, forestVars, diceVars, passes>>)
    \/ (AddAtlas /\ UNCHANGED <<connVars, forestVars, diceVars, passes>>)
    \/ (UpdateFilter /\ UNCHANGED <<connVars, forestVars, diceVars, passes>>)
    \/ (WriteOutput /\ UNCHANGED <<connVars, forestVars, diceVars, passes>>)
    \/ (Finish /\ UNCHANGED <<connVars, forestVars, diceVars, passes>>)

SpecMain == MainInit /\ [][MainNext]_vars

\* The forest of any graph over the nodes.
ForestInit ==
    /\ ConnIdle
    /\ MainIdle
    /\ edges \in SUBSET Pairs
    /\ unexamined = edges
    /\ component = [n \in Nodes |-> n]
    /\ spanningEdges = {}
    /\ forestArcs = {}
    /\ reached = {}
    /\ roots = {}
    /\ queue = <<>>
    /\ forestPc = "span"
    /\ DiceIdle
    /\ passes = 0

ForestNext ==
    \/ (ExamineEdge /\ UNCHANGED <<connVars, mainVars, diceVars, passes>>)
    \/ (FinishSpanning /\ UNCHANGED <<connVars, mainVars, diceVars, passes>>)
    \/ (ChooseRoot /\ UNCHANGED <<connVars, mainVars, diceVars, passes>>)
    \/ (VisitNode /\ UNCHANGED <<connVars, mainVars, diceVars, passes>>)
    \/ (FinishOrientation /\ UNCHANGED <<connVars, mainVars, diceVars, passes>>)

SpecForest == ForestInit /\ [][ForestNext]_vars

\* The report on any particles: each with the label it came with and the
\* label the filter gave it.
DiceInit ==
    /\ ConnIdle
    /\ MainIdle
    /\ ForestIdle
    /\ labels \in BoundedSeq([inType : Labels, outType : Labels], MaxParticles)
    /\ printDiceScores \in BOOLEAN
    /\ confusionMatrix = <<>>
    /\ intersectionCounter = ZeroCounter
    /\ inTypeCounter = ZeroCounter
    /\ outTypeCounter = ZeroCounter
    /\ particleI = 0
    /\ lastCell = NoCell
    /\ diceOut = <<>>
    /\ matrixOut = <<>>
    /\ dicePc = "report"
    /\ passes = 0

DiceNext ==
    \/ (SkipReport /\ UNCHANGED <<connVars, mainVars, forestVars, passes>>)
    \/ (StartReport /\ UNCHANGED <<connVars, mainVars, forestVars, passes>>)
    \/ (CountParticle /\ UNCHANGED <<connVars, mainVars, forestVars, passes>>)
    \/ (ReportDice /\ UNCHANGED <<connVars, mainVars, forestVars, passes>>)
    \/ (PrintConfusionMatrix /\ UNCHANGED <<connVars, mainVars, forestVars, passes>>)

SpecDice == DiceInit /\ [][DiceNext]_vars

\* The two loaders with a do-while loop, one after the other, on files in
\* every state: missing, empty, header only, rows with and without a last
\* newline, a line that does not fit the buffer.  The passes of the loops
\* are counted, and a running program always takes its next step.

LongLine == Join([c \in 1 .. (BufLen \div 2) + 1 |-> Num(c)])

TerminationEmissionFiles ==
    {MissingFile, TextFile(<<>>, TRUE),
     TextFile(<<Header(8), LongLine>>, TRUE)}
    \cup {EmissionFile(kinds, 0, t) :
            kinds \in {<<>>,
                       <<[name |-> Name(0), n |-> 7]>>,
                       <<[name |-> Name(1), n |-> 2],
                         [name |-> UnknownName, n |-> 7]>>},
            t \in BOOLEAN}

TerminationStatsFiles ==
    {MissingFile, TextFile(<<>>, TRUE),
     TextFile(<<Header(7), LongLine>>, TRUE)}
    \cup {StatsFile(kinds, 0, t) :
            kinds \in {<<>>,
                       <<[from |-> Name(0), to |-> Name(1),
                          samples |-> MinSamples + 1]>>,
                       <<[from |-> UnknownName, to |-> Name(1),
                          samples |-> MinSamples + 1],
                         [from |-> Name(1), to |-> Name(2),
                          samples |-> MinSamples]>>},
            t \in BOOLEAN}

TerminationInit ==
    /\ ConnIdle
    /\ args = [NoArgs EXCEPT !.emissionProbabilityStatsFileName = "em.csv",
                             !.transitionProbabilityStatsFileName = "tps.csv"]
    /\ \E em \in TerminationEmissionFiles, tps \in TerminationStatsFiles :
         disk = [n \in FileNames |->
                    CASE n = "em.csv" -> em
                      [] n = "tps.csv" -> tps
                      [] OTHER -> MissingFile]
    /\ numberOfEnumeratedChestRegions \in RegionCounts
    /\ pc = "emission"
    /\ LocalsIdle
    /\ ForestIdle
    /\ DiceIdle
    /\ passes = 0
    /\ trace = SetupEvents(args)

\* A pass of a do-while loop is counted, modulo 2.
CountPass == passes' = 1 - passes

TerminationNext ==
    \/ (EmissionOpen /\ UNCHANGED <<connVars, forestVars, diceVars, passes>>)
    \/ (EmissionIterate /\ CountPass /\ UNCHANGED <<connVars, forestVars, diceVars>>)
    \/ (StatsOpen /\ UNCHANGED <<connVars, forestVars, diceVars, passes>>)
    \/ (StatsIterate /\ CountPass /\ UNCHANGED <<connVars, forestVars, diceVars>>)

SpecTermination ==
    TerminationInit /\ [][TerminationNext]_vars /\ WF_vars(TerminationNext)






----------------------------------------------------------------------------
\* Claims about EvaluateParticleConnectedness, checked under SpecConn.

\* The quantities the claims speak of, stated on the particle data.
ScaleOf(i) == particles[i].scale

LargerScale(i, j) == IF ScaleOf(i) > ScaleOf(j) THEN ScaleOf(i) ELSE ScaleOf(j)

DistanceSq(i, j) ==
    LET p == particles[i].point
        q == particles[j].point
    IN  (p[1] - q[1]) * (p[1] - q[1]) + (p[2] - q[2]) * (p[2] - q[2])
        + (p[3] - q[3]) * (p[3] - q[3])

\* |scale_i - scale_j| / max(scale_i, scale_j) is not greater than the scale
\* ratio threshold; an undefined quotient (0/0) is not greater than anything.
ScaleTestPasses(i, j) ==
    \/ ScaleOf(i) = 0 /\ ScaleOf(j) = 0
    \/ /\ LargerScale(i, j) > 0
       /\ Abs(ScaleOf(i) - ScaleOf(j)) * ScaleRatioThreshold.den
              <= ScaleRatioThreshold.num * LargerScale(i, j)

\* The distance between the two positions is not greater than the distance
\* threshold.
DistanceTestPasses(i, j) ==
    DistanceSq(i, j) <= ParticleDistanceThreshold * ParticleDistanceThreshold

\* The angle between particle k's minor eigenvector and the vector connecting
\* i and j, folded into [0, 90], is not greater than the angle threshold; with
\* a zero vector the angle is undefined and not greater than anything.
AngleTestPasses(k, i, j) ==
    LET h == particles[k].hevec2
        v == Minus(particles[i].point, particles[j].point)
    IN  \/ Dot(h, h) = 0
        \/ Dot(v, v) = 0
        \/ Dot(h, v) * Dot(h, v) * CosSq(ParticleAngleThreshold).den
              >= CosSq(ParticleAngleThreshold).num * Dot(h, h) * Dot(v, v)

\* C1: EvaluateParticleConnectedness(i, j) and (j, i) return the same
\* boolean for every pair of indices, equal positions and i = j included.
C1_Symmetric ==
    \A i \in ParticleIndices, j \in ParticleIndices :
        EvaluateParticleConnectedness(i, j) = EvaluateParticleConnectedness(j, i)

\* C1 witness: a call on two distinct particles of different scales and
\* different minor eigenvectors that found them connected.
C1_Witness ==
    /\ lastEval.called
    /\ lastEval.i # lastEval.j
    /\ lastEval.result
    /\ ScaleOf(lastEval.i) # ScaleOf(lastEval.j)
    /\ particles[lastEval.i].hevec2 # particles[lastEval.j].hevec2
    /\ particles[lastEval.i].point # particles[lastEval.j].point

\* C2: a pair whose connecting vector is longer than the distance threshold
\* is never connected, whatever the scales, eigenvectors and other thresholds.
C2_FarApartNotConnected ==
    \A i \in ParticleIndices, j \in ParticleIndices :
        DistanceSq(i, j) > ParticleDistanceThreshold * ParticleDistanceThreshold
            => ~EvaluateParticleConnectedness(i, j)

\* C2 witness: a call on a pair too far apart that passes the scale and the
\* angle tests and is answered false.
C2_Witness ==
    /\ lastEval.called
    /\ ~lastEval.result
    /\ ~DistanceTestPasses(lastEval.i, lastEval.j)
    /\ ScaleTestPasses(lastEval.i, lastEval.j)
    /\ AngleTestPasses(lastEval.i, lastEval.i, lastEval.j)
    /\ AngleTestPasses(lastEval.j, lastEval.i, lastEval.j)

\* C3: the call returns true exactly when the scale test, the distance test
\* and the two angle tests all pass.
C3_TrueIffAllTestsPass ==
    \A i \in ParticleIndices, j \in ParticleIndices :
        EvaluateParticleConnectedness(i, j)
            = (/\ ScaleTestPasses(i, j)
               /\ DistanceTestPasses(i, j)
               /\ AngleTestPasses(i, i, j)
               /\ AngleTestPasses(j, i, j))

\* C3 witness: two particles one unit apart, of equal positive scale, with
\* eigenvectors parallel to the connecting vector, found connected under the
\* distance threshold 2.
C3_Witness ==
    /\ lastEval.called
    /\ lastEval.result
    /\ DistanceSq(lastEval.i, lastEval.j) = 1
    /\ ParticleDistanceThreshold = DefaultParticleDistanceThreshold
    /\ ScaleOf(lastEval.i) = ScaleOf(lastEval.j)
    /\ ScaleOf(lastEval.i) > 0
    /\ particles[lastEval.i].hevec2 = <<1, 0, 0>>
    /\ particles[lastEval.j].hevec2 = <<1, 0, 0>>
    /\ Minus(particles[lastEval.i].point, particles[lastEval.j].point) = <<1, 0, 0>>

\* C4 (the claim as stated): a pair whose two scales are zero is answered
\* not connected.
C4_ZeroScalesNotConnected ==
    (/\ lastEval.called
     /\ ScaleOf(lastEval.i) = 0
     /\ ScaleOf(lastEval.j) = 0) => ~lastEval.result

----------------------------------------------------------------------------
\* Claims about the parameter-file loaders and main.

\* What the claims read off a file, by the place of a token in its line: a
\* line is field, comma, field, comma, ...
FieldAt(line, c) == line[2 * c - 1]

\* The chest type a name token names, UNDEFINEDTYPE if none.
TypeOf(tok) ==
    IF tok.k = "name" /\ tok.v \in 0 .. LastGeneration
    THEN AIRWAYGENERATION0 + tok.v
    ELSE UNDEFINEDTYPE

\* The line has n fields; those from column first on are numbers.
IsTable(line, n, first) ==
    /\ Len(line) = 2 * n - 1
    /\ \A c \in 1 .. n - 1 : line[2 * c] = Comma
    /\ \A c \in first .. n : FieldAt(line, c).k = "num"

IsEmissionRow(line) == IsTable(line, 8, 2) /\ TypeOf(FieldAt(line, 1)) # UNDEFINEDTYPE

IsStatsRow(line) ==
    /\ IsTable(line, 7, 3)
    /\ TypeOf(FieldAt(line, 1)) # UNDEFINEDTYPE
    /\ TypeOf(FieldAt(line, 2)) # UNDEFINEDTYPE

IsGridRow(line) == IsTable(line, LastGeneration + 1, 1)

DataRows(f) == SubSeq(f.lines, 2, Len(f.lines))

CallsOf(tr, ops) == SelectSeq(tr, LAMBDA e : e.op \in ops)

EmissionSetterNames ==
    {"SetScaleStandardDeviation", "SetDistanceStandardDeviation",
     "SetAngleStandardDeviation", "SetScaleMean", "SetDistanceMean",
     "SetAngleMean"}

LoaderSetterNames ==
    EmissionSetterNames
    \cup {"SetTransitionProbability",
          "SetNormalTransitionProbabilityMeansAndVariances"}

\* The chest types emission statistics are stored for.
StoredEmissionTypes ==
    {trace[k].args[1] : k \in {m \in 1 .. Len(trace) : trace[m].op \in EmissionSetterNames}}

\* C5 (the claim as stated): when the emission loader has returned, a file
\* of a header and K well-formed rows of known names has left statistics for
\* exactly the types of its K rows, and a file whose 4th row has an unknown
\* name for exactly the types of its first three rows.
C5_EmissionRowsStored ==
    pc = "transitionStats" =>
        LET f == disk["em.csv"]
            rows == DataRows(f)
        IN  /\ (/\ f.exists /\ f.terminated /\ Len(f.lines) >= 1
                /\ \A r \in 1 .. Len(rows) : IsEmissionRow(rows[r]))
                  => StoredEmissionTypes
                       = {TypeOf(FieldAt(rows[r], 1)) : r \in 1 .. Len(rows)}
            /\ (/\ f.exists /\ Len(rows) >= 4
                /\ \A r \in 1 .. 3 : IsEmissionRow(rows[r])
                /\ IsTable(rows[4], 8, 2) /\ ~IsEmissionRow(rows[4]))
                  => StoredEmissionTypes
                       = {TypeOf(FieldAt(rows[r], 1)) : r \in 1 .. 3}

\* The first line of the file being loaded that is malformed, unrecognized
\* or missing for the loader that reads it; 0 if there is none.
FirstBadLine ==
    LET f == disk[stream.file]
        n == Len(f.lines)
        bad == CASE pc = "emissionLoop" ->
                      {r \in 2 .. n : ~IsEmissionRow(f.lines[r])}
                 [] pc = "transitionStatsLoop" ->
                      {r \in 2 .. n : ~IsStatsRow(f.lines[r])}
                 [] pc = "transitionLoop" ->
                      {r \in 1 .. n : ~IsGridRow(f.lines[r])}
                      \cup (IF n <= LastGeneration THEN {n + 1} ELSE {})
                 [] OTHER -> {}
    IN  IF bad = {} THEN 0 ELSE Min(bad)

\* C6 (the claim as stated): once a loader reads the first malformed,
\* unrecognized or missing row of its file, it calls no setter, for that row
\* or for any later one.
C6_BadRowEndsParsing ==
    [][(/\ stream.file # "NA"
        /\ disk[stream.file].exists
        /\ FirstBadLine > 0
        /\ stream.pos + 1 >= FirstBadLine)
          => CallsOf(trace', LoaderSetterNames) = CallsOf(trace, LoaderSetterNames)]_vars

\* The call a row of transition statistics is to give.
ExpectedStatsCall(line) ==
    Event("SetNormalTransitionProbabilityMeansAndVariances",
          <<TypeOf(FieldAt(line, 1)), TypeOf(FieldAt(line, 2)),
            FieldAt(line, 3).v, FieldAt(line, 4).v * FieldAt(line, 4).v,
            FieldAt(line, 5).v, FieldAt(line, 6).v * FieldAt(line, 6).v>>)

\* C7 (the claim as stated): when the transition statistics loader has
\* returned, the calls of SetNormalTransitionProbabilityMeansAndVariances are,
\* in order, one for every data row with more than 10 samples, with the row's
\* types and means and the squares of its standard deviations, and none for
\* the other rows.
C7_RowsAboveTenSamplesSet ==
    (pc = "atlases" /\ disk["tps.csv"].exists) =>
        LET counted == SelectSeq(DataRows(disk["tps.csv"]),
                                 LAMBDA line : FieldAt(line, 7).v > 10)
        IN  CallsOf(trace, {"SetNormalTransitionProbabilityMeansAndVariances"})
              = [k \in 1 .. Len(counted) |-> ExpectedStatsCall(counted[k])]

\* The calls of SetTransitionProbability.
TransitionCalls == CallsOf(trace, {"SetTransitionProbability"})

WellFormedGrid(f) ==
    /\ f.exists
    /\ Len(f.lines) = LastGeneration + 1
    /\ \A r \in 1 .. Len(f.lines) : IsGridRow(f.lines[r])

\* C8: when the transition probabilities loader has returned from a file of
\* 11 rows of 11 numbers, SetTransitionProbability has been called 121
\* times, once for each (row i, column j), with the codes 38+i and 38+j and
\* the number at row i, column j of the file.
C8_GridStoredCellByCell ==
    (pc = "emission" /\ WellFormedGrid(disk["tp.csv"])) =>
        /\ Len(TransitionCalls) = (LastGeneration + 1) * (LastGeneration + 1)
        /\ \A i \in 0 .. LastGeneration, j \in 0 .. LastGeneration :
             TransitionCalls[(LastGeneration + 1) * i + j + 1]
               = Event("SetTransitionProbability",
                       <<38 + i, 38 + j,
                         FieldAt(disk["tp.csv"].lines[i + 1], j + 1).v>>)

\* C8 witness: the loader has returned from a well-formed grid whose last
\* row has no newline, having set the last cell.
C8_Witness ==
    /\ pc = "emission"
    /\ WellFormedGrid(disk["tp.csv"])
    /\ ~disk["tp.csv"].terminated
    /\ Len(TransitionCalls) = 121
    /\ TransitionCalls[121].args[3] = GridCell(1, 10, 10)

\* Where the calls of an operation stand in the trace.
CallsAt(ops) == {k \in 1 .. Len(trace) : trace[k].op \in ops}

PopulationNames ==
    LoaderSetterNames
    \cup {"SetInput", "SetParticleDistanceThreshold",
          "SetKernelDensityEstimationROIRadius",
          "AddAirwayGenerationLabeledAtlas",
          "SetTransitionProbabilitiesFromFile",
          "SetEmissionProbabilityStatsFromFile",
          "SetTransitionProbabilityStatsFromFile"}

\* Nothing but the write follows Update(); the write comes at most once and
\* only after Update(); Update() comes with the thresholds set and every
\* atlas added; a file named "NA" is not loaded.
PopulateThenUpdateThenWrite ==
    /\ \A u \in CallsAt({"Update"}) :
         /\ \A k \in 1 .. Len(trace) : k > u => trace[k].op = "Write"
         /\ \E k \in 1 .. u : trace[k].op = "SetParticleDistanceThreshold"
         /\ {trace[k].args[1] : k \in CallsAt({"AddAirwayGenerationLabeledAtlas"})}
              = 0 .. args.atlases - 1
         /\ \A k \in CallsAt(PopulationNames) : k < u
    /\ Cardinality(CallsAt({"Write"})) <= 1
    /\ \A w \in CallsAt({"Write"}) : \E u \in CallsAt({"Update"}) : u < w
    /\ args.transitionProbabilitiesFileName = "NA"
         => CallsAt({"SetTransitionProbabilitiesFromFile",
                     "SetTransitionProbability"}) = {}
    /\ args.emissionProbabilityStatsFileName = "NA"
         => CallsAt({"SetEmissionProbabilityStatsFromFile"}
                    \cup EmissionSetterNames) = {}
    /\ args.transitionProbabilityStatsFileName = "NA"
         => CallsAt({"SetTransitionProbabilityStatsFromFile",
                     "SetNormalTransitionProbabilityMeansAndVariances"}) = {}

\* C9 (amended): in every run of main the model is populated before
\* Update(), no setter is called after Update(), the output is written at
\* most once and only after Update(), and a file named "NA" is never loaded;
\* in every run that returns success there is exactly one Update() and
\* exactly one write.
C9_PopulateUpdateWriteOnSuccess ==
    /\ PopulateThenUpdateThenWrite
    /\ pc = "done" => /\ Cardinality(CallsAt({"Update"})) = 1
                      /\ Cardinality(CallsAt({"Write"})) = 1

\* C9 witness: a run has returned success after loading all three files and
\* adding two atlases.
C9_Witness ==
    /\ pc = "done"
    /\ args.atlases = 2
    /\ CallsAt({"SetTransitionProbability"}) # {}
    /\ CallsAt({"SetEmissionProbabilityStatsFromFile"}) # {}
    /\ CallsAt({"SetNormalTransitionProbabilityMeansAndVariances"}) # {}
    /\ trace[Len(trace)].op = "Write"
    /\ trace[Len(trace) - 1].op = "Update"

\* C9 (the claim as stated): the same order, and every run of main that has
\* ended has written the output exactly once.
C9_EveryRunWritesOnce ==
    /\ PopulateThenUpdateThenWrite
    /\ pc \in {"done", "argumentParsingError"}
         => Cardinality(CallsAt({"Write"})) = 1

\* The nodes with an arc to v.
ParentsOf(v) == {u \in Nodes : <<u, v>> \in forestArcs}

RECURSIVE PathsWithin(_, _)
\* The pairs joined by a path of at most 2^k arcs of R.
PathsWithin(R, k) ==
    IF k = 0 THEN R
    ELSE LET P == PathsWithin(R, k - 1)
         IN  P \cup {<<pq[1][1], pq[2][2]>> :
                        pq \in {x \in P \X P : x[1][2] = x[2][1]}}

\* C10: the oriented forest has no cycle and gives every node at most one
\* parent, at every step of its derivation from any graph; once derived,
\* every node that is not a root has exactly one parent and every node has
\* been reached, whatever the components of the graph.
C10_ForestAcyclicOneParent ==
    /\ \A v \in Nodes : Cardinality(ParentsOf(v)) <= 1
    /\ \A p \in PathsWithin(forestArcs, NumNodes) : p[1] # p[2]
    /\ forestPc = "done" =>
         /\ \A v \in Nodes \ roots : Cardinality(ParentsOf(v)) = 1
         /\ reached = Nodes

\* C10 witness: the forest has been derived from a graph made of a triangle
\* and a node with no edge: two roots, two arcs.
C10_Witness ==
    /\ forestPc = "done"
    /\ {<<0, 1>>, <<0, 2>>, <<1, 2>>} \subseteq edges
    /\ \A p \in edges : p[2] # NumNodes - 1
    /\ roots = {0, NumNodes - 1}
    /\ Cardinality(forestArcs) = 2

----------------------------------------------------------------------------
\* Claims about the report.

Generations == AIRWAYGENERATION0 .. AIRWAYGENERATION0 + LastGeneration

\* C11 (the claim as stated): in the report, for every particle whose label
\* read and label given are both generation codes 38..48, the cell
\* [inType-38][outType-38] incremented lies inside the allocated matrix;
\* and the matrix printed has 11 rows of 11 columns.
C11_ConfusionMatrixHoldsAllGenerations ==
    /\ (/\ lastCell.used
        /\ lastCell.inType \in Generations
        /\ lastCell.outType \in Generations)
          => /\ lastCell.row \in DOMAIN confusionMatrix
             /\ lastCell.col \in DOMAIN confusionMatrix[lastCell.row]
    /\ (dicePc = "done" /\ printDiceScores)
          => /\ Len(matrixOut) = LastGeneration + 1
             /\ \A r \in 1 .. Len(matrixOut) : Len(matrixOut[r]) = LastGeneration + 1

\* The counts of the claim, taken from the particles themselves.
InCount(t) == Cardinality({k \in 1 .. Len(labels) : labels[k].inType = t})

OutCount(t) == Cardinality({k \in 1 .. Len(labels) : labels[k].outType = t})

Intersection(t) ==
    Cardinality({k \in 1 .. Len(labels) :
                    labels[k].inType = t /\ labels[k].outType = t})

\* C12 (the claim as stated): once the Dice lines are printed, every line is
\* for a label of the states list with inCount+outCount > 0 and its score
\* equals 2*intersection/(inCount+outCount), the three counts being those of
\* the particles with that label read, given, and both.
C12_DiceIsTwiceIntersectionOverCounts ==
    dicePc \in {"matrix", "done"} =>
        \A k \in 1 .. Len(diceOut) :
            LET t == diceOut[k].label
                score == diceOut[k].score
            IN  /\ t \in States
                /\ InCount(t) + OutCount(t) > 0
                /\ score.num * (InCount(t) + OutCount(t))
                     = 2 * Intersection(t) * score.den

----------------------------------------------------------------------------
\* Claims about the loaders' loops.

\* C13 (the claim as stated): on every file, the loop of
\* SetEmissionProbabilityStatsFromFile and the loop of
\* SetTransitionProbabilityStatsFromFile eventually exit: a loader that has
\* been called returns to main.
C13_LoadersReturn ==
    /\ (pc \in {"emission", "emissionLoop"}) ~> (pc = "transitionStats")
    /\ (pc \in {"transitionStats", "transitionStatsLoop"}) ~> (pc = "atlases")

----------------------------------------------------------------------------
\* Claim about the constructor's scale ratio threshold.

\* C14: under the constructor's ScaleRatioThreshold, 1.0, a pair whose two
\* scales are both above zero is never answered by the scale test: the
\* result is that of the distance test and the two angle tests.
C14_DefaultScaleTestNeverRejects ==
    ScaleRatioThreshold = DefaultScaleRatioThreshold =>
        \A i \in ParticleIndices, j \in ParticleIndices :
            (ScaleOf(i) > 0 /\ ScaleOf(j) > 0) =>
                EvaluateParticleConnectedness(i, j)
                    = (/\ DistanceTestPasses(i, j)
                       /\ AngleTestPasses(i, i, j)
                       /\ AngleTestPasses(j, i, j))

\* C14 witness: a call under the constructor's threshold on two particles
\* of different scales, both above zero, has found them connected.
C14_Witness ==
    /\ lastEval.called
    /\ lastEval.result
    /\ ScaleRatioThreshold = Frac(1, 1)
    /\ ScaleOf(lastEval.i) > 0
    /\ ScaleOf(lastEval.j) > ScaleOf(lastEval.i)

====
